---- MODULE Spec2Model ----
(***************************************************************************)
(* A model of presenterm's presentation compiler (src/src/builder.rs,      *)
(* PresentationBuilder) and of its presenter runtime (src/src/presenter.rs,*)
(* Presenter).                                                             *)
(*                                                                         *)
(* Spec          the compiler: one action per build() phase / element kind *)
(* PresenterSpec the presenter loop: load, render, one command per pull    *)
(***************************************************************************)
EXTENDS Integers, Sequences, FiniteSets, TLC

\* ------------------------------------------------------------------ bounds
\* Longest element stream handed to build().
MaxElements == 4
\* Most slides a (re)compiled presentation has in the presenter model.
MaxSlides == 3
\* Largest number typed for JumpSlide.
MaxJump == 4
\* Most commands pulled in one presenter session.
MaxCommands == 4

VARIABLES
    \* PresentationBuilder fields
    slide_operations,
    slides,
    theme,
    ignore_element_line_break,
    needs_enter_column,
    last_element_is_list,
    footer_context,
    layout,
    \* build(): position in the function, its Err(..) result, the loop variable
    build_pc,
    build_error,
    element,
    head,
    n_elements,
    \* bookkeeping over the consumed stream
    n_end_slide,
    n_pause,
    intro_slide,
    closed_by,
    \* Presenter fields and the position in present()
    state,
    mode,
    pc,
    result,
    n_commands,
    \* the command pulled last, the state it met, and what the reload it caused
    \* got from load_presentation and from the differ
    command,
    previous,
    loaded,
    modified,
    last_good,
    \* what the drawer answered in the draw made since the last command
    drawn,
    \* which of the two readings of "clamped" Presentation::jump_slide follows
    jump_policy,
    \* push_table: the table, the text lines pushed for it, the position
    table,
    table_lines,
    table_pc,
    \* push_list_item: the item, the operations pushed for it, the position
    list_item,
    list_operations,
    list_pc

builder_vars == <<slide_operations, slides, theme, ignore_element_line_break,
                  needs_enter_column, last_element_is_list, footer_context, layout,
                  build_pc, build_error, element, head, n_elements,
                  n_end_slide, n_pause, intro_slide, closed_by>>

presenter_vars == <<state, mode, pc, result, n_commands, command, previous, loaded,
                    modified, last_good, drawn, jump_policy>>

vars == <<slide_operations, slides, theme, ignore_element_line_break,
          needs_enter_column, last_element_is_list, footer_context, layout,
          build_pc, build_error, element, head, n_elements,
          n_end_slide, n_pause, intro_slide, closed_by,
          state, mode, pc, result, n_commands, command, previous, loaded,
          modified, last_good, drawn, jump_policy,
          table, table_lines, table_pc,
          list_item, list_operations, list_pc>>

list_vars == <<list_item, list_operations, list_pc>>

\* A list item: ListItem { depth, item_type }, the number of an ordered item.
NoListItem == [depth |-> 0, item_type |-> "None", number |-> 0]

ListIdle ==
    /\ list_item = NoListItem
    /\ list_operations = <<>>
    /\ list_pc = "idle"

table_vars == <<table, table_lines, table_pc>>

\* A table: the display width of every header cell and of every cell of
\* every row.
NoTable == [header |-> <<>>, rows |-> <<>>]

TableIdle ==
    /\ table = NoTable
    /\ table_lines = <<>>
    /\ table_pc = "idle"

\* ---------------------------------------------------------- render operations
RenderOperation(name, a) == [op |-> name, arg |-> a]

DefaultColors == 0
BlockQuoteColors == 1

SetColors(colors) == RenderOperation("SetColors", <<colors>>)
ClearScreen == RenderOperation("ClearScreen", <<>>)
ApplyMargin == RenderOperation("ApplyMargin", <<>>)
PopMargin == RenderOperation("PopMargin", <<>>)
JumpToVerticalCenter == RenderOperation("JumpToVerticalCenter", <<>>)
JumpToBottom == RenderOperation("JumpToBottom", <<>>)
InitColumnLayout(columns) == RenderOperation("InitColumnLayout", columns)
EnterColumn(column) == RenderOperation("EnterColumn", <<column>>)
ExitLayout == RenderOperation("ExitLayout", <<>>)
RenderSeparator == RenderOperation("RenderSeparator", <<>>)
RenderLineBreak == RenderOperation("RenderLineBreak", <<>>)
RenderTextLine == RenderOperation("RenderTextLine", <<>>)
RenderPreformattedLine == RenderOperation("RenderPreformattedLine", <<>>)
RenderImage == RenderOperation("RenderImage", <<>>)
\* RenderDynamic(Rc<FooterGenerator>): the generator's current_slide
RenderDynamic(current_slide) == RenderOperation("RenderDynamic", <<current_slide>>)

\* ------------------------------------------------------------------- layout
DefaultLayout == [tag |-> "Default", column |-> 0, columns_count |-> 0]
InLayout(n) == [tag |-> "InLayout", column |-> 0, columns_count |-> n]
InColumn(c, n) == [tag |-> "InColumn", column |-> c, columns_count |-> n]

\* -------------------------------------------------------------------- theme
\* The fields of PresentationTheme the compiler's instruction stream depends on.
DefaultTheme ==
    [padding_top |-> 0, padding_bottom |-> 0, separator |-> FALSE,
     heading_prefix |-> FALSE, author_positioning |-> "BelowTitle",
     code_theme_name |-> "none"]

NamedTheme ==
    [padding_top |-> 1, padding_bottom |-> 1, separator |-> TRUE,
     heading_prefix |-> TRUE, author_positioning |-> "PageBottom",
     code_theme_name |-> "known"]

BadCodeTheme == [DefaultTheme EXCEPT !.code_theme_name = "unknown"]

\* The default themes a builder is constructed with.
Themes == {DefaultTheme, BadCodeTheme}

\* merge_struct::merge(theme, overrides): the override patch of the model
\* turns the slide title separator on.
MergeOverrides(t) == [t EXCEPT !.separator = TRUE]

\* ----------------------------------------------------------------- elements
MarkdownElement(k, c, a) == [kind |-> k, cmd |-> c, arg |-> a]

NoElement == MarkdownElement("None", "", <<>>)

\* Front matter documents, by name; PresentationMetadata is what serde_yaml
\* makes of each.
PresentationMetadata(cmd) ==
    CASE cmd = "invalid" ->
           [valid |-> FALSE, title |-> FALSE, sub_title |-> FALSE, author |-> FALSE,
            name |-> "none", path |-> "none", overrides |-> "none"]
      [] cmd = "empty" ->
           [valid |-> TRUE, title |-> FALSE, sub_title |-> FALSE, author |-> FALSE,
            name |-> "none", path |-> "none", overrides |-> "none"]
      [] cmd = "title" ->
           [valid |-> TRUE, title |-> TRUE, sub_title |-> FALSE, author |-> FALSE,
            name |-> "none", path |-> "none", overrides |-> "ok"]
      [] cmd = "author" ->
           [valid |-> TRUE, title |-> FALSE, sub_title |-> FALSE, author |-> TRUE,
            name |-> "none", path |-> "none", overrides |-> "none"]
      [] cmd = "full" ->
           [valid |-> TRUE, title |-> TRUE, sub_title |-> TRUE, author |-> TRUE,
            name |-> "known", path |-> "none", overrides |-> "none"]
      [] cmd = "name_and_path" ->
           [valid |-> TRUE, title |-> TRUE, sub_title |-> FALSE, author |-> FALSE,
            name |-> "known", path |-> "ok", overrides |-> "none"]
      [] cmd = "unknown_name" ->
           [valid |-> TRUE, title |-> FALSE, sub_title |-> FALSE, author |-> FALSE,
            name |-> "unknown", path |-> "none", overrides |-> "none"]
      [] cmd = "bad_path" ->
           [valid |-> TRUE, title |-> FALSE, sub_title |-> FALSE, author |-> FALSE,
            name |-> "none", path |-> "bad", overrides |-> "none"]
      [] cmd = "bad_overrides" ->
           [valid |-> TRUE, title |-> FALSE, sub_title |-> FALSE, author |-> FALSE,
            name |-> "none", path |-> "ok", overrides |-> "bad"]

FrontMatters ==
    {MarkdownElement("FrontMatter", c, <<>>) :
        c \in {"invalid", "empty", "title", "author", "full", "name_and_path",
               "unknown_name", "bad_path", "bad_overrides"}}

\* Largest column index / column count written in a directive.
MaxColumn == 2

ColumnLayouts == {<<>>, <<0>>, <<1>>, <<1, 0>>, <<1, 2>>}

Comments ==
    {MarkdownElement("Comment", c, <<>>) :
        c \in {"multiline", "unparsable", "pause", "end_slide", "reset_layout"}}
    \cup {MarkdownElement("Comment", "column_layout", w) : w \in ColumnLayouts}
    \cup {MarkdownElement("Comment", "column", <<i>>) : i \in 0..MaxColumn}

\* arg: the number of text chunks / items / lines / rows the element carries.
Contents ==
    {MarkdownElement("SetexHeading", "", <<1>>),
     MarkdownElement("Heading", "", <<1>>),
     MarkdownElement("Paragraph", "", <<1>>),
     MarkdownElement("List", "", <<1>>),
     MarkdownElement("Code", "", <<0>>),
     MarkdownElement("Code", "", <<1>>),
     MarkdownElement("Table", "", <<1>>),
     MarkdownElement("ThematicBreak", "", <<>>),
     MarkdownElement("BlockQuote", "", <<1>>),
     MarkdownElement("Image", "ok", <<>>),
     MarkdownElement("Image", "missing", <<>>)}

\* Front matter after the first element is not looked into (process_element
\* matches FrontMatter(_)), so two documents stand for all of them there.
LaterFrontMatters ==
    {MarkdownElement("FrontMatter", c, <<>>) : c \in {"empty", "full"}}

Elements == FrontMatters \cup Comments \cup Contents

\* --------------------------------------------------------- builder, as a record
Self ==
    [slide_operations |-> slide_operations,
     slides |-> slides,
     theme |-> theme,
     ignore_element_line_break |-> ignore_element_line_break,
     needs_enter_column |-> needs_enter_column,
     last_element_is_list |-> last_element_is_list,
     footer_context |-> footer_context,
     layout |-> layout,
     error |-> "none"]

\* Result<(), BuildError> with `?`: the rest runs only when no error was returned.
Try(b, F(_)) == IF b.error # "none" THEN b ELSE F(b)

Err(b, e) == [b EXCEPT !.error = e]

Repeat(x, n) == [i \in 1..n |-> x]

Last(s) == s[Len(s)]

push(b, ops) == [b EXCEPT !.slide_operations = @ \o ops]

push_line_break(b) == push(b, <<RenderLineBreak>>)

\* push_text / push_aligned_text: one RenderTextLine unless the text has no chunks
push_text(b, chunks) == IF chunks > 0 THEN push(b, <<RenderTextLine>>) ELSE b

push_slide_prelude(b) ==
    push_line_break(push(b, <<SetColors(DefaultColors), ClearScreen, ApplyMargin>>))

\* push_footer with the generator numbered after the slide count is bumped
push_footer_counts_from_one(b) ==
    push(b, <<ExitLayout, PopMargin, JumpToBottom, RenderDynamic(Len(b.slides) + 1)>>)

\* push_footer that also keeps total_slides up to date
push_footer_writes_total_slides(b) ==
    push([b EXCEPT !.footer_context.total_slides = Len(b.slides) + 1],
         <<ExitLayout, PopMargin, JumpToBottom, RenderDynamic(Len(b.slides))>>)

push_footer(b) ==
    push(b, <<ExitLayout, PopMargin, JumpToBottom, RenderDynamic(Len(b.slides))>>)

\* terminate_slide that keeps the transient state whatever the mode
terminate_slide_never_resets(b, terminate_mode) ==
    LET footed == push_footer(b)
        taken == [footed EXCEPT !.slides = Append(@, footed.slide_operations),
                                !.slide_operations = <<>>]
    IN  push_slide_prelude(taken)

\* terminate_slide that resets the transient state whatever the mode
terminate_slide_always_resets(b, terminate_mode) ==
    LET footed == push_footer(b)
        taken == [footed EXCEPT !.slides = Append(@, footed.slide_operations),
                                !.slide_operations = <<>>]
    IN  [push_slide_prelude(taken) EXCEPT !.ignore_element_line_break = TRUE,
                                          !.needs_enter_column = FALSE,
                                          !.layout = DefaultLayout]

terminate_slide(b, terminate_mode) ==
    LET footed == push_footer(b)
        taken == [footed EXCEPT !.slides = Append(@, footed.slide_operations),
                                !.slide_operations = <<>>]
        next == push_slide_prelude(taken)
    IN  IF terminate_mode = "ResetState"
        THEN [next EXCEPT !.ignore_element_line_break = TRUE,
                          !.needs_enter_column = FALSE,
                          !.layout = DefaultLayout]
        ELSE next

\* validate_last_operation that takes a line break for a valid last operation
validate_last_operation_accepts_line_break(b) ==
    IF ~b.needs_enter_column THEN b
    ELSE IF b.slide_operations = <<>> THEN b
    ELSE IF Last(b.slide_operations).op = "InitColumnLayout" THEN b
    ELSE LET cleared == [b EXCEPT !.needs_enter_column = FALSE]
         IN  IF Last(b.slide_operations).op
                    \in {"EnterColumn", "ExitLayout", "RenderLineBreak"}
             THEN cleared
             ELSE Err(cleared, "NotInsideColumn")

validate_last_operation(b) ==
    IF ~b.needs_enter_column THEN b
    ELSE IF b.slide_operations = <<>> THEN b
    ELSE IF Last(b.slide_operations).op = "InitColumnLayout" THEN b
    ELSE LET cleared == [b EXCEPT !.needs_enter_column = FALSE]
         IN  IF Last(b.slide_operations).op \in {"EnterColumn", "ExitLayout"}
             THEN cleared
             ELSE Err(cleared, "NotInsideColumn")

set_theme(b, metadata) ==
    IF metadata.name # "none" /\ metadata.path # "none"
    THEN Err(b, "InvalidMetadata")
    ELSE
    LET with_name ==
            IF metadata.name = "none" THEN b
            ELSE IF metadata.name = "unknown" THEN Err(b, "InvalidMetadata")
            ELSE [b EXCEPT !.theme = NamedTheme]
        with_path(n) ==
            IF metadata.path = "none" THEN n
            ELSE IF metadata.path = "bad" THEN Err(n, "InvalidTheme")
            ELSE [n EXCEPT !.theme = NamedTheme]
        with_overrides(l) ==
            IF metadata.overrides = "none" THEN l
            ELSE IF metadata.overrides = "bad" THEN Err(l, "InvalidMetadata")
            ELSE [l EXCEPT !.theme = MergeOverrides(@)]
    IN  Try(Try(with_name, with_path), with_overrides)

set_code_theme(b) ==
    IF b.theme.code_theme_name = "unknown" THEN Err(b, "InvalidCodeTheme") ELSE b

push_intro_slide(b, metadata) ==
    LET titled == push_line_break(push_text(push(b, <<JumpToVerticalCenter>>), 1))
        sub_titled ==
            IF metadata.sub_title THEN push_line_break(push_text(titled, 1)) ELSE titled
        authored ==
            IF metadata.author
            THEN push_text(
                   IF sub_titled.theme.author_positioning = "BelowTitle"
                   THEN push(sub_titled, Repeat(RenderLineBreak, 3))
                   ELSE push(sub_titled, <<JumpToBottom>>),
                   1)
            ELSE sub_titled
    IN  terminate_slide(authored, "ResetState")

process_front_matter(b, contents) ==
    LET metadata == PresentationMetadata(contents)
        authored == [b EXCEPT !.footer_context.author =
                                 IF metadata.author THEN "author" ELSE ""]
        intro(t) ==
            IF metadata.title \/ metadata.sub_title \/ metadata.author
            THEN push_intro_slide(push_slide_prelude(t), metadata)
            ELSE t
    IN  IF ~metadata.valid THEN Err(b, "InvalidMetadata")
        ELSE Try(set_theme(authored, metadata), intro)

\* validate_column_layout that only looks for an empty list
validate_column_layout_allows_zero(columns) ==
    IF columns = <<>> THEN "InvalidLayout"
    ELSE "none"

\* validate_column_layout that only looks for zero widths
validate_column_layout_accepts_empty(columns) ==
    IF \E i \in 1..Len(columns) : columns[i] = 0 THEN "InvalidLayout"
    ELSE "none"

validate_column_layout(columns) ==
    IF columns = <<>> THEN "InvalidLayout"
    ELSE IF \E i \in 1..Len(columns) : columns[i] = 0 THEN "InvalidLayout"
    ELSE "none"

\* process_pause that appends the replayed operations to the fresh prelude
\* instead of replacing it
process_pause_keeps_prelude(b) ==
    LET ops == b.slide_operations
        popped ==
            IF b.last_element_is_list /\ ops # <<>> /\ Last(ops).op = "RenderLineBreak"
            THEN [b EXCEPT !.slide_operations = SubSeq(ops, 1, Len(ops) - 1)]
            ELSE b
        next_operations == popped.slide_operations
    IN  push(terminate_slide(popped, "KeepState"), next_operations)

\* process_pause that drops a trailing line break whatever the element before
\* it was
process_pause_pops_any_line_break(b) ==
    LET ops == b.slide_operations
        popped ==
            IF ops # <<>> /\ Last(ops).op = "RenderLineBreak"
            THEN [b EXCEPT !.slide_operations = SubSeq(ops, 1, Len(ops) - 1)]
            ELSE b
        next_operations == popped.slide_operations
    IN  [terminate_slide(popped, "KeepState") EXCEPT !.slide_operations = next_operations]

process_pause(b) ==
    LET ops == b.slide_operations
        popped ==
            IF b.last_element_is_list /\ ops # <<>> /\ Last(ops).op = "RenderLineBreak"
            THEN [b EXCEPT !.slide_operations = SubSeq(ops, 1, Len(ops) - 1)]
            ELSE b
        next_operations == popped.slide_operations
    IN  [terminate_slide(popped, "KeepState") EXCEPT !.slide_operations = next_operations]

\* enter_column that takes the column count for a valid index
enter_column_off_by_one(b, column) ==
    IF b.layout.tag = "Default" THEN Err(b, "NoLayout")
    ELSE IF b.layout.tag = "InColumn" /\ b.layout.column = column
    THEN Err(b, "AlreadyInColumn")
    ELSE IF column > b.layout.columns_count
    THEN Err(b, "ColumnIndexTooLarge")
    ELSE push([b EXCEPT !.layout = InColumn(column, @.columns_count)],
              <<EnterColumn(column)>>)

\* enter_column that reads the Default layout as a layout of no columns
enter_column_without_layout_check(b, column) ==
    IF b.layout.tag = "InColumn" /\ b.layout.column = column
    THEN Err(b, "AlreadyInColumn")
    ELSE IF column >= b.layout.columns_count
    THEN Err(b, "ColumnIndexTooLarge")
    ELSE push([b EXCEPT !.layout = InColumn(column, @.columns_count)],
              <<EnterColumn(column)>>)

\* enter_column that does not compare with the current column
enter_column_without_current_check(b, column) ==
    IF b.layout.tag = "Default" THEN Err(b, "NoLayout")
    ELSE IF column >= b.layout.columns_count
    THEN Err(b, "ColumnIndexTooLarge")
    ELSE push([b EXCEPT !.layout = InColumn(column, @.columns_count)],
              <<EnterColumn(column)>>)

\* The CommentCommand::Column(column) arm of process_comment.
enter_column(b, column) ==
    IF b.layout.tag = "Default" THEN Err(b, "NoLayout")
    ELSE IF b.layout.tag = "InColumn" /\ b.layout.column = column
    THEN Err(b, "AlreadyInColumn")
    ELSE IF column >= b.layout.columns_count
    THEN Err(b, "ColumnIndexTooLarge")
    ELSE push([b EXCEPT !.layout = InColumn(column, @.columns_count)],
              <<EnterColumn(column)>>)

process_comment(b, comment) ==
    LET done(c) == [c EXCEPT !.ignore_element_line_break = TRUE]
    IN
    CASE comment.cmd = "multiline" -> b
      [] comment.cmd = "unparsable" -> Err(b, "CommandParse")
      [] comment.cmd = "pause" -> done(process_pause(b))
      [] comment.cmd = "end_slide" -> done(terminate_slide(b, "ResetState"))
      [] comment.cmd = "column_layout" ->
           IF validate_column_layout(comment.arg) # "none"
           THEN Err(b, validate_column_layout(comment.arg))
           ELSE done([push([b EXCEPT !.layout = InLayout(Len(comment.arg))],
                           <<InitColumnLayout(comment.arg)>>)
                        EXCEPT !.needs_enter_column = TRUE])
      [] comment.cmd = "reset_layout" ->
           done(push([b EXCEPT !.layout = DefaultLayout],
                     <<ExitLayout, RenderLineBreak>>))
      [] comment.cmd = "column" -> Try(enter_column(b, comment.arg[1]), done)

push_slide_title(b, chunks) ==
    LET style == b.theme
        top == push(b, Repeat(RenderLineBreak, style.padding_top))
        text == push_line_break(push_text(top, chunks))
        bottom == push(text, Repeat(RenderLineBreak, style.padding_bottom))
        ruled == IF style.separator THEN push(bottom, <<RenderSeparator>>) ELSE bottom
    IN  [push_line_break(ruled) EXCEPT !.ignore_element_line_break = TRUE]

push_heading(b, chunks) ==
    push_line_break(
        push_text(b, IF b.theme.heading_prefix THEN chunks + 1 ELSE chunks))

RECURSIVE push_each(_, _, _)
\* `for item in items { push(item) }` with every item pushing `ops`
push_each(b, n, ops) == IF n = 0 THEN b ELSE push_each(push(b, ops), n - 1, ops)

push_paragraph(b, texts) == push_each(b, texts, <<RenderTextLine, RenderLineBreak>>)

push_separator(b) == push(b, <<RenderSeparator, RenderLineBreak>>)

push_image(b, path) ==
    IF path = "missing" THEN Err(b, "LoadImage") ELSE push(b, <<RenderImage>>)

\* the prefix line, the contents line, a line break
push_list_item(b) == push(b, <<RenderTextLine, RenderTextLine, RenderLineBreak>>)

RECURSIVE push_list(_, _)
push_list(b, items) == IF items = 0 THEN b ELSE push_list(push_list_item(b), items - 1)

\* push_block_quote that does not restore the default colors
push_block_quote_keeps_colors(b, lines) ==
    push_each(push(b, <<SetColors(BlockQuoteColors)>>), lines,
              <<RenderPreformattedLine, RenderLineBreak>>)

push_block_quote(b, lines) ==
    push(push_each(push(b, <<SetColors(BlockQuoteColors)>>), lines,
                   <<RenderPreformattedLine, RenderLineBreak>>),
         <<SetColors(DefaultColors)>>)

push_code(b, lines) == push_each(b, lines, <<RenderPreformattedLine, RenderLineBreak>>)

\* header, separator, rows; every table of the model has at least one column
push_table(b, rows) ==
    push_each(push(b, <<RenderTextLine, RenderLineBreak, RenderTextLine, RenderLineBreak>>),
              rows, <<RenderTextLine, RenderLineBreak>>)

\* process_element that reads a front matter wherever it stands
process_element_reads_front_matter(b, e) ==
    LET is_list == e.kind = "List"
        ignored(c) == [c EXCEPT !.ignore_element_line_break = TRUE]
        processed ==
            CASE e.kind = "FrontMatter" -> Try(process_front_matter(b, e.cmd), ignored)
              [] e.kind = "SetexHeading" -> push_slide_title(b, e.arg[1])
              [] e.kind = "Heading" -> push_heading(b, e.arg[1])
              [] e.kind = "Paragraph" -> push_paragraph(b, e.arg[1])
              [] e.kind = "List" -> push_list(b, e.arg[1])
              [] e.kind = "Code" -> push_code(b, e.arg[1])
              [] e.kind = "Table" -> push_table(b, e.arg[1])
              [] e.kind = "ThematicBreak" -> push_separator(b)
              [] e.kind = "Comment" -> process_comment(b, e)
              [] e.kind = "BlockQuote" -> push_block_quote(b, e.arg[1])
              [] e.kind = "Image" -> push_image(b, e.cmd)
    IN  IF processed.error # "none" THEN processed
        ELSE [processed EXCEPT !.last_element_is_list = is_list]

process_element(b, e) ==
    LET is_list == e.kind = "List"
        processed ==
            CASE e.kind = "FrontMatter" -> [b EXCEPT !.ignore_element_line_break = TRUE]
              [] e.kind = "SetexHeading" -> push_slide_title(b, e.arg[1])
              [] e.kind = "Heading" -> push_heading(b, e.arg[1])
              [] e.kind = "Paragraph" -> push_paragraph(b, e.arg[1])
              [] e.kind = "List" -> push_list(b, e.arg[1])
              [] e.kind = "Code" -> push_code(b, e.arg[1])
              [] e.kind = "Table" -> push_table(b, e.arg[1])
              [] e.kind = "ThematicBreak" -> push_separator(b)
              [] e.kind = "Comment" -> process_comment(b, e)
              [] e.kind = "BlockQuote" -> push_block_quote(b, e.arg[1])
              [] e.kind = "Image" -> push_image(b, e.cmd)
    IN  IF processed.error # "none" THEN processed
        ELSE [processed EXCEPT !.last_element_is_list = is_list]

\* One iteration of build()'s `for element in elements`.
build_iteration(b, e) ==
    LET fresh == [b EXCEPT !.ignore_element_line_break = FALSE]
        broken(v) == IF ~v.ignore_element_line_break THEN push_line_break(v) ELSE v
    IN  Try(Try(Try(fresh, LAMBDA f : process_element(f, e)),
                validate_last_operation),
            broken)

\* build() up to the loop.
build_prologue(b, first) ==
    LET front == IF first.kind = "FrontMatter" THEN process_front_matter(b, first.cmd) ELSE b
        prelude(c) == IF c.slide_operations = <<>> THEN push_slide_prelude(c) ELSE c
    IN  Try(Try(front, set_code_theme), prelude)

\* build_epilogue that takes a buffer holding only the prelude for empty
build_epilogue_skips_bare_prelude(b) ==
    LET flushed == IF Len(b.slide_operations) > 4 THEN terminate_slide(b, "ResetState")
                   ELSE b
    IN  [flushed EXCEPT !.footer_context.total_slides = Len(flushed.slides)]

\* build() after the loop.
build_epilogue(b) ==
    LET flushed == IF b.slide_operations # <<>> THEN terminate_slide(b, "ResetState") ELSE b
    IN  [flushed EXCEPT !.footer_context.total_slides = Len(flushed.slides)]

\* ------------------------------------------------------------ builder actions
\* The builder after a step; closed_by notes, for every slide the step pushed,
\* what pushed it.
Store(b, closer) ==
    /\ closed_by' = closed_by \o Repeat(closer, Len(b.slides) - Len(slides))
    /\ slide_operations' = b.slide_operations
    /\ slides' = b.slides
    /\ theme' = b.theme
    /\ ignore_element_line_break' = b.ignore_element_line_break
    /\ needs_enter_column' = b.needs_enter_column
    /\ last_element_is_list' = b.last_element_is_list
    /\ footer_context' = b.footer_context
    /\ layout' = b.layout
    /\ build_error' = b.error

NoPresentation == [slides |-> <<>>, current_slide_index |-> 0]

Empty == [tag |-> "Empty", error |-> "", presentation |-> NoPresentation]
Presenting(p) == [tag |-> "Presenting", error |-> "", presentation |-> p]
Failure(e, p) == [tag |-> "Failure", error |-> e, presentation |-> p]

NoLoad == [ok |-> FALSE, error |-> "", slides |-> <<>>]

\* Command::User(UserCommand), with the number of UserCommand::JumpSlide(number),
\* Command::ReloadPresentation, Command::Abort { error }; "IoError" is the Err
\* of next_command().
Command(name, number, error) == [name |-> name, number |-> number, error |-> error]

NoCommand == Command("none", 0, "")

\* What present() returns: Ok(()) or a PresentationError variant with what it
\* wraps; Running while it has not returned.
PresentationError(variant, error) == [tag |-> variant, error |-> error]

Running == [tag |-> "none", error |-> ""]

Ok == [tag |-> "Ok", error |-> ""]

Panic == [tag |-> "panic", error |-> ""]

PresenterIdle ==
    /\ state = Empty
    /\ mode = "Development"
    /\ pc = "idle"
    /\ result = Running
    /\ n_commands = 0
    /\ command = NoCommand
    /\ previous = Empty
    /\ loaded = NoLoad
    /\ modified = -1
    /\ last_good = <<>>
    /\ drawn = "none"
    /\ jump_policy = "reject"

Init ==
    /\ slide_operations = <<>>
    /\ slides = <<>>
    /\ theme \in Themes
    /\ ignore_element_line_break = FALSE
    /\ needs_enter_column = FALSE
    /\ last_element_is_list = FALSE
    /\ footer_context = [total_slides |-> 0, author |-> ""]
    /\ layout = DefaultLayout
    /\ build_pc = "start"
    /\ build_error = "none"
    /\ element = NoElement
    /\ head = NoElement
    /\ n_elements = 0
    /\ n_end_slide = 0
    /\ n_pause = 0
    /\ intro_slide = FALSE
    /\ closed_by = <<>>
    /\ PresenterIdle
    /\ TableIdle
    /\ ListIdle

\* build(elements) is entered; `first` is elements.first(), None for an empty
\* stream.
BuildStart ==
    /\ build_pc = "start"
    /\ \E first \in Elements \cup {NoElement} :
        LET b == build_prologue(Self, first)
        IN  /\ Store(b, "intro")
            /\ head' = first
            /\ intro_slide' = /\ first.kind = "FrontMatter"
                              /\ b.error = "none"
                              /\ LET metadata == PresentationMetadata(first.cmd)
                                 IN  metadata.title \/ metadata.sub_title \/ metadata.author
            /\ build_pc' = IF b.error # "none" THEN "failed" ELSE "loop"
    /\ UNCHANGED <<element, n_elements, n_end_slide, n_pause>>
    /\ UNCHANGED presenter_vars
    /\ UNCHANGED table_vars
    /\ UNCHANGED list_vars

\* The element the next loop iteration takes: the stream's first element when
\* it was not consumed yet, any element afterwards.
NextElement(e) ==
    /\ build_pc = "loop"
    /\ n_elements < MaxElements
    /\ IF n_elements = 0 THEN head # NoElement /\ e = head ELSE TRUE

Iterate(e) ==
    /\ NextElement(e)
    /\ LET b == build_iteration(Self, e)
       IN  /\ Store(b, e.cmd)
           /\ build_pc' = IF b.error # "none" THEN "failed" ELSE "loop"
           /\ n_end_slide' = IF e.cmd = "end_slide" /\ b.error = "none"
                             THEN n_end_slide + 1 ELSE n_end_slide
           /\ n_pause' = IF e.cmd = "pause" /\ b.error = "none"
                         THEN n_pause + 1 ELSE n_pause
    /\ element' = e
    /\ n_elements' = n_elements + 1
    /\ UNCHANGED <<head, intro_slide>>
    /\ UNCHANGED presenter_vars
    /\ UNCHANGED table_vars
    /\ UNCHANGED list_vars

ProcessFrontMatter ==
    \E e \in FrontMatters : (n_elements > 0 => e \in LaterFrontMatters) /\ Iterate(e)

ProcessContent == \E e \in Contents : Iterate(e)

ProcessComment == \E e \in Comments : Iterate(e)

\* The stream is exhausted: the final flush and the write of total_slides.
BuildFinish ==
    /\ build_pc = "loop"
    /\ (n_elements = 0 => head = NoElement)
    /\ Store(build_epilogue(Self), "final")
    /\ build_pc' = "done"
    /\ UNCHANGED <<element, head, n_elements, n_end_slide, n_pause, intro_slide>>
    /\ UNCHANGED presenter_vars
    /\ UNCHANGED table_vars
    /\ UNCHANGED list_vars

Next ==
    \/ BuildStart
    \/ ProcessFrontMatter
    \/ ProcessContent
    \/ ProcessComment
    \/ BuildFinish

Spec == Init /\ [][Next]_vars

\* ==================================================== properties of the compiler
Count(s, name) == Cardinality({i \in 1..Len(s) : s[i].op = name})

OpNames(s) == [i \in 1..Len(s) |-> s[i].op]

IsPrefix(s, t) == Len(s) <= Len(t) /\ SubSeq(t, 1, Len(s)) = s

WithoutFooter(s) == SubSeq(s, 1, Len(s) - 4)

Compiled == build_pc = "done"

\* An iteration of build()'s loop was taken by this step.
Stepped == n_elements' = n_elements + 1

\* C1: in a compiled presentation every slide (intro, closed by end_slide,
\* closed by pause, final) starts with SetColors, ClearScreen, ApplyMargin,
\* ends with ExitLayout, PopMargin, JumpToBottom, RenderDynamic and holds
\* exactly one ClearScreen, ApplyMargin, PopMargin and RenderDynamic.
C1_PreludeAndFooter ==
    Compiled =>
        \A i \in 1..Len(slides) :
            LET s == slides[i]
            IN  /\ Len(s) >= 7
                /\ OpNames(SubSeq(s, 1, 3)) = <<"SetColors", "ClearScreen", "ApplyMargin">>
                /\ OpNames(SubSeq(s, Len(s) - 3, Len(s)))
                     = <<"ExitLayout", "PopMargin", "JumpToBottom", "RenderDynamic">>
                /\ \A name \in {"ClearScreen", "ApplyMargin", "PopMargin", "RenderDynamic"} :
                     Count(s, name) = 1

\* A compiled presentation with an intro slide, a slide closed by end_slide,
\* one closed by pause and the final one.
C1_Witness ==
    /\ Compiled
    /\ {closed_by[i] : i \in 1..Len(closed_by)} = {"intro", "end_slide", "pause", "final"}

\* C5: the slide a pause closes, less its four footer instructions, is a prefix
\* of the next slide (of the buffer, while that slide is still open), and a
\* pause that compiles leaves the layout state and the pending-enter-column
\* flag as they were.
C5_Replayed ==
    \A i \in 1..Len(slides) :
        closed_by[i] = "pause" =>
            IsPrefix(WithoutFooter(slides[i]),
                     IF i < Len(slides) THEN slides[i + 1] ELSE slide_operations)

C5_StateKept ==
    (Stepped /\ element'.cmd = "pause" /\ build_error' = "none") =>
        /\ layout' = layout
        /\ needs_enter_column' = needs_enter_column

C5_PauseReplaysAndKeepsState == []C5_Replayed /\ [][C5_StateKept]_vars

\* A compiled presentation where a pause inside a column closed a slide that
\* was then continued.
C5_Witness ==
    /\ Compiled
    /\ \E i \in 1..Len(slides) - 1 :
        /\ closed_by[i] = "pause"
        /\ Count(slides[i], "EnterColumn") = 1
        /\ Len(slides[i + 1]) > Len(slides[i])

\* C6: a compiled presentation has one slide per end_slide directive, one per
\* pause directive, one for the final flush and one more when front matter
\* made an intro slide.
C6_SlideCount ==
    Compiled =>
        Len(slides) = n_end_slide + n_pause + 1 + (IF intro_slide THEN 1 ELSE 0)

\* A stream with an intro slide and a pause that ends in end_slide.
C6_Witness ==
    /\ Compiled
    /\ intro_slide
    /\ n_pause >= 1
    /\ element.cmd = "end_slide"

\* C7: total_slides is written once the last slide is closed and equals the
\* number of slides; until build returns it is unwritten; the footer generator
\* of the slide at position i carries current_slide = i, so that
\* 1 <= current_slide + 1 <= total_slides.
C7_FooterContext ==
    /\ ~Compiled => footer_context.total_slides = 0
    /\ Compiled =>
        /\ footer_context.total_slides = Len(slides)
        /\ \A i \in 1..Len(slides) :
            /\ Last(slides[i]) = RenderDynamic(i - 1)
            /\ 1 <= Last(slides[i]).arg[1] + 1
            /\ Last(slides[i]).arg[1] + 1 <= footer_context.total_slides

\* A compiled presentation of an intro slide and at least two more.
C7_Witness ==
    /\ Compiled
    /\ intro_slide
    /\ Len(slides) >= 3

NoOperation == RenderOperation("None", <<>>)

RECURSIVE CommonPrefix(_, _)
\* The length of the longest common prefix.
CommonPrefix(s, t) ==
    IF s = <<>> \/ t = <<>> \/ Head(s) # Head(t) THEN 0
    ELSE 1 + CommonPrefix(Tail(s), Tail(t))

\* The first instruction a step emits into the slide buffer, looking into the
\* slide the step closed when it closed one.
FirstEmitted ==
    LET into == IF Len(slides') > Len(slides) THEN slides'[Len(slides) + 1]
                ELSE slide_operations'
        kept == CommonPrefix(slide_operations, into)
    IN  IF Len(into) > kept THEN into[kept + 1] ELSE NoOperation

\* C8 as claimed: with the flag armed, a step whose first emitted instruction
\* is neither EnterColumn nor ExitLayout fails with NotInsideColumn.
C8_Original ==
    [][(needs_enter_column /\ Stepped /\ FirstEmitted # NoOperation
            /\ FirstEmitted.op \notin {"EnterColumn", "ExitLayout"})
        => build_error' = "NotInsideColumn"]_vars

\* Elements that emit content instructions of their own.
EmitsContent(e) ==
    \/ e.kind \in {"SetexHeading", "Heading", "Table", "ThematicBreak", "BlockQuote"}
    \/ e.kind \in {"Paragraph", "List", "Code"} /\ e.arg[1] > 0
    \/ e.kind = "Image" /\ e.cmd = "ok"

\* C8 (amended): with the flag armed, an element that emits content
\* instructions fails with NotInsideColumn; the flag is cleared without error
\* only by a column directive, which leaves EnterColumn last in the buffer, or
\* by end_slide; the InitColumnLayout of a further column_layout directive and
\* the automatic line break after an element that emitted nothing are accepted
\* and leave the flag armed.
C8_Armed ==
    (needs_enter_column /\ Stepped) =>
        /\ EmitsContent(element') => build_error' = "NotInsideColumn"
        /\ (build_error' = "none" /\ ~needs_enter_column') =>
            \/ element'.cmd = "end_slide"
            \/ /\ element'.cmd = "column"
               /\ slide_operations' = Append(slide_operations, EnterColumn(element'.arg[1]))
        /\ (build_error' = "none" /\ needs_enter_column') =>
            \/ Last(slide_operations').op = "InitColumnLayout"
            \/ /\ slide_operations' = Append(slide_operations, RenderLineBreak)
               /\ ~EmitsContent(element')

C8_NextOperationChecked == [][C8_Armed]_vars

\* column_layout followed directly by a thematic break.
C8_Witness ==
    /\ build_error = "NotInsideColumn"
    /\ element.kind = "ThematicBreak"
    /\ Count(slide_operations, "InitColumnLayout") = 1

\* C9: a column directive met in the Default layout state fails with NoLayout,
\* whatever its index.
C9_NoLayout ==
    [][(Stepped /\ element'.cmd = "column" /\ layout.tag = "Default")
        => build_error' = "NoLayout"]_vars

\* column after a layout was entered and left again with reset_layout.
C9_Witness ==
    /\ build_error = "NoLayout"
    /\ element.cmd = "column"
    /\ Count(slide_operations, "EnterColumn") = 1
    /\ Count(slide_operations, "ExitLayout") = 1

\* C10: a column directive naming the column the layout state is in fails
\* with AlreadyInColumn.
C10_AlreadyInColumn ==
    [][(Stepped /\ element'.cmd = "column" /\ layout.tag = "InColumn"
            /\ layout.column = element'.arg[1])
        => build_error' = "AlreadyInColumn"]_vars

\* The second column directive comes after a pause that followed the first.
C10_Witness ==
    /\ build_error = "AlreadyInColumn"
    /\ n_pause = 1
    /\ Len(slides) = 1
    /\ Count(slides[1], "EnterColumn") = 1

\* C11: a column directive met in InLayout{n} or InColumn{c, n}, naming a column
\* other than the current one, fails with ColumnIndexTooLarge when its index
\* is n or more; otherwise the layout state becomes InColumn{index, n} and
\* exactly one EnterColumn{index} is appended to the buffer.
C11_Column ==
    (Stepped /\ element'.cmd = "column" /\ layout.tag \in {"InLayout", "InColumn"}
        /\ ~(layout.tag = "InColumn" /\ layout.column = element'.arg[1]))
    => IF element'.arg[1] >= layout.columns_count
       THEN build_error' = "ColumnIndexTooLarge"
       ELSE /\ build_error' = "none"
            /\ layout' = InColumn(element'.arg[1], layout.columns_count)
            /\ slide_operations' = Append(slide_operations, EnterColumn(element'.arg[1]))
            /\ slides' = slides

C11_EnterColumn == [][C11_Column]_vars

\* A column was entered, and the next column directive names an index that is
\* the column count.
C11_Witness ==
    /\ build_error = "ColumnIndexTooLarge"
    /\ layout.tag = "InColumn"
    /\ element.arg = <<layout.columns_count>>
    /\ Last(slide_operations) = EnterColumn(layout.column)

\* C12: a column_layout directive, in any layout state, fails with
\* InvalidLayout when its widths are empty or hold a 0, and then emits no
\* instruction; otherwise the layout state becomes InLayout{len(widths)},
\* InitColumnLayout{widths} is appended and the pending-enter-column flag is
\* armed.
C12_Layout ==
    (Stepped /\ element'.cmd = "column_layout")
    => LET widths == element'.arg
       IN  IF widths = <<>> \/ \E i \in 1..Len(widths) : widths[i] = 0
           THEN /\ build_error' = "InvalidLayout"
                /\ slide_operations' = slide_operations
                /\ slides' = slides
           ELSE /\ build_error' = "none"
                /\ layout' = InLayout(Len(widths))
                /\ slide_operations' = Append(slide_operations, InitColumnLayout(widths))
                /\ needs_enter_column'

C12_InitColumnLayout == [][C12_Layout]_vars

\* A layout was set up and a column entered; the next column_layout directive
\* has a zero width after a valid one.
C12_Witness ==
    /\ build_error = "InvalidLayout"
    /\ element.arg = <<1, 0>>
    /\ layout.tag = "InColumn"
    /\ Count(slide_operations, "InitColumnLayout") = 1

\* C13: end_slide compiles and leaves the layout state Default and the
\* pending-enter-column flag cleared, so the element after it never fails with
\* NotInsideColumn and a column directive after it fails with NoLayout.
C13_Reset ==
    /\ (Stepped /\ element'.cmd = "end_slide") =>
        /\ build_error' = "none"
        /\ layout' = DefaultLayout
        /\ ~needs_enter_column'
    /\ (Stepped /\ element.cmd = "end_slide") =>
        /\ build_error' # "NotInsideColumn"
        /\ element'.cmd = "column" => build_error' = "NoLayout"

C13_EndSlideResets == [][C13_Reset]_vars

\* column_layout, column, end_slide, column.
C13_Witness ==
    /\ build_error = "NoLayout"
    /\ element.cmd = "column"
    /\ Len(slides) = 1
    /\ closed_by = <<"end_slide">>
    /\ Count(slides[1], "InitColumnLayout") = 1
    /\ Count(slides[1], "EnterColumn") = 1

\* C14: the layout state always has column < columns_count when InColumn and
\* columns_count >= 1 when InLayout or InColumn, and it changes only in a
\* step that processes a column_layout, column, reset_layout or end_slide
\* directive, in the front matter's intro slide, or in the final flush.
C14_WellFormed ==
    /\ layout.tag = "InColumn" => layout.column < layout.columns_count
    /\ layout.tag \in {"InLayout", "InColumn"} => layout.columns_count >= 1

C14_Changed ==
    layout' # layout =>
        \/ Stepped /\ element'.cmd \in {"column_layout", "column", "reset_layout", "end_slide"}
        \/ build_pc = "start"
        \/ build_pc' = "done"

C14_LayoutState == []C14_WellFormed /\ [][C14_Changed]_vars

\* Content compiled inside the second of two columns.
C14_Witness ==
    /\ layout = InColumn(1, 2)
    /\ element.kind = "Paragraph"
    /\ build_error = "none"
    /\ Last(slide_operations) = RenderLineBreak

\* How often the instruction `op` is in `s`.
Occurrences(s, op) == Cardinality({i \in 1..Len(s) : s[i] = op})

\* C22 as claimed: every slide of a compiled presentation holds exactly one
\* SetColors and exactly one ClearScreen.
C22_Original ==
    Compiled =>
        \A i \in 1..Len(slides) :
            /\ Count(slides[i], "SetColors") = 1
            /\ Count(slides[i], "ClearScreen") = 1

\* C22 (amended): every closed slide holds exactly one ClearScreen and starts
\* with the one SetColors of its prelude; besides it there are two SetColors
\* for every block quote shown on the slide, one setting the block quote
\* colors and one restoring the default colors, and no other element adds a
\* SetColors to the buffer.
C22_Slides ==
    \A i \in 1..Len(slides) :
        LET s == slides[i]
            quotes == Occurrences(s, SetColors(BlockQuoteColors))
        IN  /\ Count(s, "ClearScreen") = 1
            /\ s[1] = SetColors(DefaultColors)
            /\ Occurrences(s, SetColors(DefaultColors)) = 1 + quotes
            /\ Count(s, "SetColors") = 1 + 2 * quotes

C22_Element ==
    (Stepped /\ build_error' = "none" /\ element'.kind # "Comment") =>
        /\ slides' = slides
        /\ Count(slide_operations', "SetColors")
             = Count(slide_operations, "SetColors")
               + (IF element'.kind = "BlockQuote" THEN 2 ELSE 0)

C22_ColorsAndClear == []C22_Slides /\ [][C22_Element]_vars

\* A compiled presentation with an intro slide and a later slide showing a
\* block quote.
C22_Witness ==
    /\ Compiled
    /\ intro_slide
    /\ \E i \in 1..Len(slides) : Count(slides[i], "SetColors") = 3

\* The instructions that show on the screen: all but colors, clear screen,
\* margins, jumps and layout instructions.
Visible(s) ==
    SelectSeq(s, LAMBDA o : o.op \in {"RenderTextLine", "RenderSeparator", "RenderLineBreak",
                                      "RenderImage", "RenderPreformattedLine",
                                      "RenderDynamic"})

\* C23 as claimed: in a compiled presentation the visible instructions of
\* every slide but the intro slide start with a line break, and the second
\* of them is not a line break.
C23_Original ==
    Compiled =>
        \A i \in 1..Len(slides) :
            (i > 1 \/ ~intro_slide) =>
                LET shown == Visible(slides[i])
                IN  /\ Len(shown) >= 2
                    /\ shown[1] = RenderLineBreak
                    /\ shown[2] # RenderLineBreak

\* C25 as claimed: the iteration that takes a multi-line comment returns no
\* error, leaves the slide buffer, the closed slides, the layout and the
\* pending-enter-column flag as they were.
C25_Original ==
    [][(Stepped /\ element'.cmd = "multiline") =>
          /\ build_error' = "none"
          /\ slide_operations' = slide_operations
          /\ slides' = slides
          /\ layout' = layout
          /\ needs_enter_column' = needs_enter_column]_vars

\* C27 as claimed: reset_layout taken right after a valid column_layout
\* returns no error, clears the pending-enter-column flag, makes the layout
\* Default and appends ExitLayout and one line break to the buffer.
C27_Original ==
    [][(/\ Stepped
        /\ element.cmd = "column_layout"
        /\ needs_enter_column
        /\ element'.cmd = "reset_layout") =>
          /\ build_error' = "none"
          /\ ~needs_enter_column'
          /\ layout' = DefaultLayout
          /\ slide_operations' = slide_operations \o <<ExitLayout, RenderLineBreak>>]_vars

\* C28: a pause that compiles closes the buffer less its last instruction when
\* the element before it was a list and the buffer ends in a line break, and
\* the whole buffer otherwise; what it closed, less the footer, is the next
\* buffer. So one line break is removed in the first case, nothing in the
\* second, and never more than one.
C28_Pause ==
    (Stepped /\ element'.cmd = "pause" /\ build_error' = "none") =>
        LET removes == element.kind = "List" /\ Last(slide_operations) = RenderLineBreak
            kept == IF removes
                    THEN SubSeq(slide_operations, 1, Len(slide_operations) - 1)
                    ELSE slide_operations
        IN  /\ slides' = Append(slides, kept \o <<ExitLayout, PopMargin, JumpToBottom,
                                                  RenderDynamic(Len(slides))>>)
            /\ slide_operations' = kept

C28_PauseLineBreak == [][C28_Pause]_vars

\* A list, a pause that took the list's trailing line break, and a second
\* pause that found the buffer ending in the list item's own line break and
\* left it alone.
C28_Witness ==
    /\ n_elements = 3
    /\ n_pause = 2
    /\ element.cmd = "pause"
    /\ Len(slides) = 2
    /\ Count(slide_operations, "RenderLineBreak") = 2
    /\ Last(slide_operations) = RenderLineBreak
    /\ WithoutFooter(slides[1]) = WithoutFooter(slides[2])

\* C29 as claimed, in the case the claim singles out: the state before a pause
\* is one from which the stream, ending there, compiles; so a pause that
\* returns an error is a pause whose insertion changed the outcome. The
\* iteration that takes a pause returns no error.
C29_Original ==
    [][(Stepped /\ element'.cmd = "pause") => build_error' = "none"]_vars

C30_Writes ==
    /\ (build_pc = "start" /\ build_pc' # "start") =>
          /\ footer_context'.total_slides = footer_context.total_slides
          /\ footer_context'.author # footer_context.author =>
                /\ head'.kind = "FrontMatter"
                /\ PresentationMetadata(head'.cmd).author
    /\ Stepped => footer_context' = footer_context
    /\ (build_pc = "loop" /\ build_pc' = "done") =>
          /\ footer_context'.author = footer_context.author
          /\ footer_context.total_slides = 0
          /\ footer_context'.total_slides = Len(slides')
          /\ footer_context'.total_slides > 0

LaterFrontMatter == Stepped /\ n_elements > 0 /\ element'.kind = "FrontMatter"

\* C32 as claimed: the iteration that takes a later front matter returns no
\* error and leaves the theme, the footer context, the closed slides and the
\* slide buffer as they were.
C32_Original ==
    [][LaterFrontMatter =>
          /\ build_error' = "none"
          /\ theme' = theme
          /\ footer_context' = footer_context
          /\ slides' = slides
          /\ slide_operations' = slide_operations]_vars

\* C32: the iteration that takes a later front matter leaves the theme, the
\* footer context, the closed slides, the slide buffer and the layout as
\* they were. It returns NotInsideColumn exactly when the pending-enter-column
\* flag is armed and the buffer ends in something other than
\* InitColumnLayout, EnterColumn or ExitLayout, and no error otherwise; when
\* it returns none, the element before the next one is no list any more and
\* the flag is not armed unless it was.
C32_Step ==
    LaterFrontMatter =>
        /\ theme' = theme
        /\ footer_context' = footer_context
        /\ slides' = slides
        /\ slide_operations' = slide_operations
        /\ layout' = layout
        /\ build_error' \in {"none", "NotInsideColumn"}
        /\ build_error' = "NotInsideColumn" <=>
              /\ needs_enter_column
              /\ Last(slide_operations).op \notin {"InitColumnLayout", "EnterColumn",
                                                   "ExitLayout"}
        /\ build_error' = "none" =>
              /\ ~last_element_is_list'
              /\ needs_enter_column' => needs_enter_column

C32_LaterFrontMatterIgnored == [][C32_Step]_vars

\* A list followed by a front matter that names an author: the author is not
\* written, the list's operations and its trailing line break are in the
\* buffer, and the last element counts as no list.
C32_Witness ==
    /\ n_elements = 2
    /\ element = MarkdownElement("FrontMatter", "full", <<>>)
    /\ build_error = "none"
    /\ footer_context.author = ""
    /\ Count(slide_operations, "RenderTextLine") = 2
    /\ Last(slide_operations) = RenderLineBreak
    /\ ~last_element_is_list

\* ===================================================================== presenter
\* ------------------------------------------------ Presentation (presentation.rs)
\* Presentation::new(slides): the cursor starts on the first slide.
NewPresentation(s) == [slides |-> s, current_slide_index |-> 0]

current_slide_index(p) == p.current_slide_index

\* Each jump answers [presentation, moved]: moved says whether the cursor moved.
Jumped(p, index) ==
    [presentation |-> [p EXCEPT !.current_slide_index = index],
     moved |-> index # p.current_slide_index]

jump_next_slide(p) ==
    IF p.current_slide_index < Len(p.slides) - 1
    THEN Jumped(p, p.current_slide_index + 1)
    ELSE Jumped(p, p.current_slide_index)

jump_previous_slide(p) ==
    IF p.current_slide_index > 0
    THEN Jumped(p, p.current_slide_index - 1)
    ELSE Jumped(p, p.current_slide_index)

\* jump_slide that takes any index
jump_slide_unclamped(p, slide_index, policy) == Jumped(p, slide_index)

\* The cursor is clamped to [0, len - 1]: an index past the end either leaves
\* the cursor alone (policy "reject") or puts it on the last slide ("saturate").
jump_slide(p, slide_index, policy) ==
    IF slide_index < Len(p.slides) THEN Jumped(p, slide_index)
    ELSE IF policy = "saturate" /\ Len(p.slides) > 0 THEN Jumped(p, Len(p.slides) - 1)
    ELSE Jumped(p, p.current_slide_index)

jump_first_slide(p) == Jumped(p, 0)

jump_last_slide(p) == Jumped(p, IF Len(p.slides) = 0 THEN 0 ELSE Len(p.slides) - 1)

\* ------------------------------------------ PresentationDiffer (diff.rs)
None == -1

Min(a, b) == IF a < b THEN a ELSE b

\* The first index at which a slide of the original differs from the slide of
\* the update at the same index, None when no slide they both have differs.
first_modified_slide(original, updated) ==
    LET common == Min(Len(original.slides), Len(updated.slides))
        differing == {i \in 1..common : original.slides[i] # updated.slides[i]}
    IN  IF differing # {}
        THEN (CHOOSE i \in differing : \A j \in differing : i <= j) - 1
        ELSE None

\* -------------------------------------------------------- PresenterState
\* What the panic!("state is empty") arms answer in the model, and the state
\* a panicking handler leaves.
PanicPresentation == [slides |-> <<>>, current_slide_index |-> -1]

Panicked == [tag |-> "Panic", error |-> "state is empty", presentation |-> NoPresentation]

presentation(s) == IF s.tag = "Empty" THEN PanicPresentation ELSE s.presentation

into_presentation(s) == IF s.tag = "Empty" THEN PanicPresentation ELSE s.presentation

\* ------------------------------------------------------------- Presenter
\* What load_presentation can return: Err(e) for the three LoadPresentationError
\* variants, or Ok(presentation) with at least one slide.
RECURSIVE SeqsUpTo(_, _)
SeqsUpTo(S, n) ==
    IF n = 0 THEN {<<>>}
    ELSE LET shorter == SeqsUpTo(S, n - 1)
         IN  shorter \cup {Append(q, x) : q \in {r \in shorter : Len(r) = n - 1}, x \in S}

\* Two slide contents suffice to make two compiled presentations differ at any
\* chosen slide.
SlideContents == {"a", "b"}

SlideDecks == SeqsUpTo(SlideContents, MaxSlides) \ {<<>>}

LoadErrors == {"Reading", "Parse", "Processing"}

LoadResults ==
    {[ok |-> TRUE, error |-> "", slides |-> d] : d \in SlideDecks}
    \cup {[ok |-> FALSE, error |-> e, slides |-> <<>>] : e \in LoadErrors}

\* reload_success that falls back to the first slide
reload_success_falls_back_to_first(s, load, jumps) ==
    IF presentation(s) = PanicPresentation THEN Panicked
    ELSE LET current == presentation(s)
             fresh == NewPresentation(load.slides)
             first == first_modified_slide(current, fresh)
             target_slide == IF first = None THEN 0 ELSE first
         IN  Presenting(jump_slide(fresh, target_slide, jumps).presentation)

\* The Ok(presentation) arm of try_reload.
reload_success(s, load, jumps) ==
    IF presentation(s) = PanicPresentation THEN Panicked
    ELSE LET current == presentation(s)
             fresh == NewPresentation(load.slides)
             first == first_modified_slide(current, fresh)
             target_slide == IF first = None THEN current_slide_index(current) ELSE first
         IN  Presenting(jump_slide(fresh, target_slide, jumps).presentation)

\* reload_failure that rewinds the kept presentation
reload_failure_rewinds(s, load) ==
    IF into_presentation(s) = PanicPresentation THEN Panicked
    ELSE Failure(load.error, NewPresentation(into_presentation(s).slides))

\* reload_failure that stops after mem::take
reload_failure_leaves_empty(s, load) ==
    IF into_presentation(s) = PanicPresentation THEN Panicked
    ELSE Empty

\* The Err(e) arm of try_reload: mem::take leaves Empty behind and
\* into_presentation consumes what was there.
reload_failure(s, load) ==
    IF into_presentation(s) = PanicPresentation THEN Panicked
    ELSE Failure(load.error, into_presentation(s))

\* try_reload that recompiles in the Presentation mode as well
try_reload_in_any_mode(s, present_mode, load, jumps) ==
    IF load.ok THEN reload_success(s, load, jumps)
    ELSE reload_failure(s, load)

\* try_reload, given what load_presentation and the differ return.
try_reload(s, present_mode, load, jumps) ==
    IF present_mode = "Presentation" THEN s
    ELSE IF load.ok THEN reload_success(s, load, jumps)
    ELSE reload_failure(s, load)

\* apply_user_command that asks for a redraw after every command it applies
apply_user_command_always_redraws(s, user_command, number, jumps) ==
    IF user_command = "Exit" THEN [state |-> s, effect |-> "Exit"]
    ELSE IF s.tag # "Presenting" THEN [state |-> s, effect |-> "None"]
    ELSE LET p == s.presentation
             saturating_sub == IF number = 0 THEN 0 ELSE number - 1
             jump ==
                CASE user_command = "Redraw" -> [presentation |-> p, moved |-> TRUE]
                  [] user_command = "JumpNextSlide" -> jump_next_slide(p)
                  [] user_command = "JumpPreviousSlide" -> jump_previous_slide(p)
                  [] user_command = "JumpFirstSlide" -> jump_first_slide(p)
                  [] user_command = "JumpLastSlide" -> jump_last_slide(p)
                  [] user_command = "JumpSlide" -> jump_slide(p, saturating_sub, jumps)
         IN  [state |-> Presenting(jump.presentation), effect |-> "Redraw"]

\* apply_user_command that looks at the state before it looks for Exit
apply_user_command_exits_only_presenting(s, user_command, number, jumps) ==
    IF s.tag # "Presenting" THEN [state |-> s, effect |-> "None"]
    ELSE IF user_command = "Exit" THEN [state |-> s, effect |-> "Exit"]
    ELSE LET p == s.presentation
             saturating_sub == IF number = 0 THEN 0 ELSE number - 1
             jump ==
                CASE user_command = "Redraw" -> [presentation |-> p, moved |-> TRUE]
                  [] user_command = "JumpNextSlide" -> jump_next_slide(p)
                  [] user_command = "JumpPreviousSlide" -> jump_previous_slide(p)
                  [] user_command = "JumpFirstSlide" -> jump_first_slide(p)
                  [] user_command = "JumpLastSlide" -> jump_last_slide(p)
                  [] user_command = "JumpSlide" -> jump_slide(p, saturating_sub, jumps)
         IN  [state |-> Presenting(jump.presentation),
              effect |-> IF jump.moved THEN "Redraw" ELSE "None"]

\* apply_user_command that serves Redraw before it looks at the state
apply_user_command_redraws_in_any_state(s, user_command, number, jumps) ==
    IF user_command = "Exit" THEN [state |-> s, effect |-> "Exit"]
    ELSE IF user_command = "Redraw" THEN [state |-> s, effect |-> "Redraw"]
    ELSE IF s.tag # "Presenting" THEN [state |-> s, effect |-> "None"]
    ELSE LET p == s.presentation
             saturating_sub == IF number = 0 THEN 0 ELSE number - 1
             jump ==
                CASE user_command = "JumpNextSlide" -> jump_next_slide(p)
                  [] user_command = "JumpPreviousSlide" -> jump_previous_slide(p)
                  [] user_command = "JumpFirstSlide" -> jump_first_slide(p)
                  [] user_command = "JumpLastSlide" -> jump_last_slide(p)
                  [] user_command = "JumpSlide" -> jump_slide(p, saturating_sub, jumps)
         IN  [state |-> Presenting(jump.presentation),
              effect |-> IF jump.moved THEN "Redraw" ELSE "None"]

\* apply_user_command: [state, effect]
apply_user_command(s, user_command, number, jumps) ==
    IF user_command = "Exit" THEN [state |-> s, effect |-> "Exit"]
    ELSE IF s.tag # "Presenting" THEN [state |-> s, effect |-> "None"]
    ELSE LET p == s.presentation
             saturating_sub == IF number = 0 THEN 0 ELSE number - 1
             jump ==
                CASE user_command = "Redraw" -> [presentation |-> p, moved |-> TRUE]
                  [] user_command = "JumpNextSlide" -> jump_next_slide(p)
                  [] user_command = "JumpPreviousSlide" -> jump_previous_slide(p)
                  [] user_command = "JumpFirstSlide" -> jump_first_slide(p)
                  [] user_command = "JumpLastSlide" -> jump_last_slide(p)
                  [] user_command = "JumpSlide" -> jump_slide(p, saturating_sub, jumps)
         IN  [state |-> Presenting(jump.presentation),
              effect |-> IF jump.moved THEN "Redraw" ELSE "None"]

\* render that hands every RenderError to present()
render_propagates_too_small(s, answer) ==
    IF s.tag = "Empty" THEN "panic"
    ELSE answer

\* render: what present() sees of drawer.render_slide / render_error
render(s, answer) ==
    IF s.tag = "Empty" THEN "panic"
    ELSE IF answer = "TerminalTooSmall" THEN "Ok"
    ELSE answer

BuilderIdle ==
    /\ slide_operations = <<>>
    /\ slides = <<>>
    /\ theme = DefaultTheme
    /\ ignore_element_line_break = FALSE
    /\ needs_enter_column = FALSE
    /\ last_element_is_list = FALSE
    /\ footer_context = [total_slides |-> 0, author |-> ""]
    /\ layout = DefaultLayout
    /\ build_pc = "idle"
    /\ build_error = "none"
    /\ element = NoElement
    /\ head = NoElement
    /\ n_elements = 0
    /\ n_end_slide = 0
    /\ n_pause = 0
    /\ intro_slide = FALSE
    /\ closed_by = <<>>

\* Presenter::new
PresenterInit ==
    /\ BuilderIdle
    /\ state = Empty
    /\ mode \in {"Development", "Presentation"}
    /\ pc = "load"
    /\ result = Running
    /\ n_commands = 0
    /\ command = NoCommand
    /\ previous = Empty
    /\ loaded = NoLoad
    /\ modified = None
    /\ last_good = <<>>
    /\ drawn = "none"
    /\ jump_policy \in {"reject", "saturate"}
    /\ TableIdle
    /\ ListIdle

Finish(r) == pc' = "done" /\ result' = r

\* present(): the first load_presentation(path)? and TerminalDrawer::new(..)?
Load ==
    /\ pc = "load"
    /\ \E load \in LoadResults, drawer \in {"Ok", "Io"} :
        /\ loaded' = load
        /\ IF ~load.ok
           THEN /\ Finish(PresentationError("LoadPresentationError", load.error))
                /\ UNCHANGED <<state, last_good>>
           ELSE /\ state' = Presenting(NewPresentation(load.slides))
                /\ last_good' = load.slides
                /\ IF drawer = "Io" THEN Finish(PresentationError("Io", ""))
                   ELSE pc' = "render" /\ UNCHANGED result
    /\ UNCHANGED <<mode, n_commands, command, previous, modified, drawn, jump_policy>>
    /\ UNCHANGED builder_vars
    /\ UNCHANGED table_vars
    /\ UNCHANGED list_vars

\* What drawer.render_slide / render_error answer: Ok or a RenderError.
RenderResults == {"Ok", "TerminalTooSmall", "Io"}

\* self.render(&mut drawer)?
Render ==
    /\ pc = "render"
    /\ \E answer \in RenderResults :
        LET r == render(state, answer)
        IN  /\ drawn' = answer
            /\ CASE r = "Ok" -> pc' = "pull" /\ UNCHANGED result
                 [] r = "panic" -> Finish(Panic)
                 [] OTHER -> Finish(PresentationError("Render", r))
    /\ UNCHANGED <<state, mode, n_commands, command, previous, loaded, modified,
                   last_good, jump_policy>>
    /\ UNCHANGED builder_vars
    /\ UNCHANGED table_vars
    /\ UNCHANGED list_vars

Pull(c) ==
    /\ pc = "pull"
    /\ n_commands < MaxCommands
    /\ n_commands' = n_commands + 1
    /\ command' = c
    /\ previous' = state
    /\ drawn' = "none"
    /\ UNCHANGED <<mode, jump_policy>>
    /\ UNCHANGED builder_vars
    /\ UNCHANGED table_vars
    /\ UNCHANGED list_vars

\* self.commands.next_command()? fails
CommandError ==
    /\ Pull(Command("IoError", 0, ""))
    /\ Finish(PresentationError("Io", ""))
    /\ UNCHANGED <<state, loaded, modified, last_good>>

\* Command::User(command)
User(user_command, number) ==
    /\ Pull(Command(user_command, number, ""))
    /\ LET applied == apply_user_command(state, user_command, number, jump_policy)
       IN  /\ state' = applied.state
           /\ CASE applied.effect = "Exit" -> Finish(Ok)
                [] applied.effect = "Redraw" -> pc' = "render" /\ UNCHANGED result
                [] applied.effect = "None" -> pc' = "pull" /\ UNCHANGED result
    /\ UNCHANGED <<loaded, modified, last_good>>

Exit == User("Exit", 0)

Redraw == User("Redraw", 0)

JumpNextSlide == User("JumpNextSlide", 0)

JumpPreviousSlide == User("JumpPreviousSlide", 0)

JumpFirstSlide == User("JumpFirstSlide", 0)

JumpLastSlide == User("JumpLastSlide", 0)

JumpSlide == \E number \in 0..MaxJump : User("JumpSlide", number)

\* Command::ReloadPresentation
ReloadPresentation ==
    /\ Pull(Command("ReloadPresentation", 0, ""))
    /\ \E load \in LoadResults :
        LET reloaded == try_reload(state, mode, load, jump_policy)
            attempted == mode # "Presentation"
        IN  /\ loaded' = IF attempted THEN load ELSE NoLoad
            /\ modified' = IF attempted /\ load.ok /\ state.tag # "Empty"
                           THEN first_modified_slide(state.presentation,
                                                     NewPresentation(load.slides))
                           ELSE None
            /\ last_good' = IF attempted /\ load.ok THEN load.slides ELSE last_good
            /\ IF reloaded.tag = "Panic"
               THEN Finish(Panic) /\ UNCHANGED state
               ELSE state' = reloaded /\ pc' = "render" /\ UNCHANGED result

\* The errors the command source wraps in Command::Abort.
AbortErrors == {"watcher", "channel"}

\* Command::Abort { error }
Abort ==
    /\ \E error \in AbortErrors :
        /\ Pull(Command("Abort", 0, error))
        /\ Finish(PresentationError("Fatal", error))
    /\ UNCHANGED <<state, loaded, modified, last_good>>

PresenterNext ==
    \/ Load
    \/ Render
    \/ CommandError
    \/ Exit
    \/ Redraw
    \/ JumpNextSlide
    \/ JumpPreviousSlide
    \/ JumpFirstSlide
    \/ JumpLastSlide
    \/ JumpSlide
    \/ ReloadPresentation
    \/ Abort

PresenterSpec == PresenterInit /\ [][PresenterNext]_vars

\* =================================================== properties of the presenter
\* A reload was the last command and, in Development mode, it called
\* load_presentation.
Reloaded == command.name = "ReloadPresentation" /\ mode = "Development"

\* C2: a failed reload in Development mode leaves Failure{error, P} with P the
\* presentation held before it, slides and cursor alike, and does not end the
\* session; the presentation held is always the one compiled last.
C2_FailedReloadKeepsPresentation ==
    /\ (Reloaded /\ ~loaded.ok) =>
        /\ state = Failure(loaded.error, previous.presentation)
        /\ pc = "done" => result.tag = "Render"
    /\ state.tag # "Empty" => state.presentation.slides = last_good

\* Two failed reloads in a row, with the cursor off the first slide.
C2_Witness ==
    /\ Reloaded
    /\ ~loaded.ok
    /\ previous.tag = "Failure"
    /\ state.tag = "Failure"
    /\ state.presentation.current_slide_index > 0

\* The slide try_reload asks the new presentation to jump to.
TargetSlide ==
    IF modified = None THEN previous.presentation.current_slide_index ELSE modified

\* C3 as claimed: a successful reload leaves Presenting(new) with the cursor
\* on the first modified slide, or on the previous cursor index.
C3_Original ==
    (Reloaded /\ loaded.ok) =>
        /\ state.tag = "Presenting"
        /\ state.presentation.slides = loaded.slides
        /\ state.presentation.current_slide_index = TargetSlide

\* C3 (amended): a successful reload leaves Presenting(new), from Presenting
\* and from Failure; the cursor is on the first modified slide, or on the
\* previous cursor index when the differ finds none, whenever that index is a
\* slide of the new presentation, and on a slide of the new presentation
\* otherwise.
C3_ReloadMovesCursor ==
    (Reloaded /\ loaded.ok) =>
        /\ state.tag = "Presenting"
        /\ state.presentation.slides = loaded.slides
        /\ state.presentation.current_slide_index \in 0..(Len(loaded.slides) - 1)
        /\ TargetSlide < Len(loaded.slides) =>
             state.presentation.current_slide_index = TargetSlide

\* A reload out of Failure that found no modified slide and kept the cursor
\* off the first slide.
C3_Witness ==
    /\ Reloaded
    /\ loaded.ok
    /\ previous.tag = "Failure"
    /\ modified = None
    /\ state.presentation.current_slide_index > 0

\* C4: wherever the state is looked at (a draw, a command pull), it is
\* Presenting or Failure, a Failure carries a presentation with slides, and no
\* session ends in the panics of the Empty arms.
C4_NeverEmpty ==
    /\ pc \in {"render", "pull"} =>
        /\ state.tag \in {"Presenting", "Failure"}
        /\ state.presentation # NoPresentation
        /\ Len(state.presentation.slides) >= 1
    /\ result.tag # "panic"

\* A Failure state waiting for its next command after a second command.
C4_Witness ==
    /\ pc = "pull"
    /\ state.tag = "Failure"
    /\ n_commands >= 2

\* A command was pulled by this step.
Pulled == n_commands' = n_commands + 1

Navigation ==
    {"JumpNextSlide", "JumpPreviousSlide", "JumpFirstSlide", "JumpLastSlide", "JumpSlide"}

\* C15 as claimed: a navigation command met in the Failure state moves the
\* cursor of the retained presentation as it would have moved it in the
\* Presenting state.
C15_Original ==
    (command.name \in Navigation /\ previous.tag = "Failure") =>
        state = Failure(previous.error,
                        apply_user_command(Presenting(previous.presentation), command.name,
                                           command.number, jump_policy).state.presentation)

\* C16: while Presenting, a navigation command is followed by a draw before
\* the next command is pulled exactly when it moved the cursor; one that left
\* the cursor where it was changes nothing and the next command is pulled
\* without a draw. A step out of the draw position is a draw, never a pull.
C16_Navigation ==
    /\ (Pulled /\ command'.name \in Navigation /\ state.tag = "Presenting") =>
        LET moved == state'.presentation.current_slide_index
                        # state.presentation.current_slide_index
        IN  /\ state'.tag = "Presenting"
            /\ state'.presentation.slides = state.presentation.slides
            /\ moved <=> pc' = "render"
            /\ ~moved => (state' = state /\ pc' = "pull")
    /\ pc = "render" => (~Pulled /\ drawn' \in RenderResults)

C16_RedrawIffMoved == [][C16_Navigation]_vars

\* JumpNextSlide on the last of several slides: nothing changed, no draw was
\* made, the next command is awaited.
C16_Witness ==
    /\ command.name = "JumpNextSlide"
    /\ pc = "pull"
    /\ drawn = "none"
    /\ state = previous
    /\ state.tag = "Presenting"
    /\ state.presentation.current_slide_index = Len(state.presentation.slides) - 1
    /\ state.presentation.current_slide_index > 0

\* C17 as claimed: a Redraw command is followed by a draw before the next
\* command is pulled, in the Presenting state and in the Failure state.
C17_Original ==
    [][(Pulled /\ command'.name = "Redraw" /\ state.tag \in {"Presenting", "Failure"})
        => pc' = "render"]_vars

\* C18: Exit ends the session with Ok(()) and Abort { error } ends it with
\* PresentationError::Fatal(error), whatever the state; once the session has
\* ended no step follows: no command is pulled and nothing is drawn.
C18_Ends ==
    /\ (Pulled /\ command'.name = "Exit") => (pc' = "done" /\ result' = Ok)
    /\ (Pulled /\ command'.name = "Abort") =>
        /\ pc' = "done"
        /\ result' = PresentationError("Fatal", command'.error)
        /\ command'.error \in AbortErrors
    /\ pc # "done"

C18_ExitAndAbort == [][C18_Ends]_vars

\* Exit met in the Failure state.
C18_Witness ==
    /\ command.name = "Exit"
    /\ state.tag = "Failure"
    /\ pc = "done"
    /\ result = Ok

\* C19: in the Presentation mode a ReloadPresentation command calls no
\* load_presentation and leaves the state (variant, presentation, cursor,
\* error) as it was, however many commands came before.
C19_Ignored ==
    (Pulled /\ command'.name = "ReloadPresentation" /\ mode = "Presentation") =>
        /\ state' = state
        /\ loaded' = NoLoad
        /\ modified' = None
        /\ last_good' = last_good
        /\ mode' = mode

C19_LockedReload == [][C19_Ignored]_vars

\* A reload in the Presentation mode with the cursor off the first slide,
\* after two commands or more.
C19_Witness ==
    /\ mode = "Presentation"
    /\ command.name = "ReloadPresentation"
    /\ n_commands >= 3
    /\ state = previous
    /\ state.presentation.current_slide_index > 0

\* C20: a draw answered with TerminalTooSmall leaves the state as it was and
\* goes on to the command pull; a draw answered with another error ends the
\* session with PresentationError::Render of that error, the state untouched
\* and no command pulled.
C20_Draw ==
    pc = "render" =>
        /\ state' = state
        /\ n_commands' = n_commands
        /\ drawn' = "TerminalTooSmall" => (pc' = "pull" /\ result' = Running)
        /\ drawn' \notin {"Ok", "TerminalTooSmall"} =>
            (pc' = "done" /\ result' = PresentationError("Render", drawn'))

C20_TerminalTooSmall == [][C20_Draw]_vars

\* The error banner of a Failure state met a terminal that is too small.
C20_Witness ==
    /\ drawn = "TerminalTooSmall"
    /\ pc = "pull"
    /\ state.tag = "Failure"

\* C21: whatever navigation commands and reloads came before, the cursor of
\* the presentation held (in Presenting and in Failure) is an index of one of
\* its slides: 0 <= current_slide_index <= len - 1.
C21_CursorInRange ==
    state.tag \in {"Presenting", "Failure"} =>
        /\ 0 <= state.presentation.current_slide_index
        /\ state.presentation.current_slide_index <= Len(state.presentation.slides) - 1

\* A successful reload gave fewer slides than the index the cursor was on,
\* with no slide modified, as the third command or later.
C21_Witness ==
    /\ Reloaded
    /\ loaded.ok
    /\ modified = None
    /\ previous.presentation.current_slide_index >= Len(loaded.slides)
    /\ state.tag = "Presenting"
    /\ n_commands >= 3

\* C26 as claimed: a draw was made between every pull and the pull before it
\* (and before the first pull).
C26_Original == [][Pulled => drawn # "none"]_vars

\* C26: a step out of the draw position is one draw and leads to the pull
\* position or out of the loop, so no two draws follow each other; a pull
\* is made from the pull position only. Before the first pull, after a
\* ReloadPresentation and after a Redraw met while Presenting, a draw was made
\* before the next pull; after a navigation or Redraw command met in the
\* Failure state the next pull is made with no draw in between; and a pull
\* with no draw before it follows only a navigation or Redraw command.
C26_Step ==
    /\ pc = "render" => (~Pulled /\ drawn' \in RenderResults /\ pc' \in {"pull", "done"})
    /\ Pulled =>
        /\ pc = "pull"
        /\ n_commands = 0 => drawn # "none"
        /\ (n_commands > 0 /\ command.name = "ReloadPresentation") => drawn # "none"
        /\ (n_commands > 0 /\ command.name = "Redraw" /\ previous.tag = "Presenting") =>
              drawn # "none"
        /\ (/\ n_commands > 0
            /\ command.name \in Navigation \cup {"Redraw"}
            /\ previous.tag = "Failure") => drawn = "none"
        /\ drawn = "none" =>
              (n_commands > 0 /\ command.name \in Navigation \cup {"Redraw"})

C26_DrawsBetweenPulls == [][C26_Step]_vars

\* JumpFirstSlide met on the first slide as the second command or later:
\* nothing changed, no draw was made since it was pulled, and the next pull
\* is awaited.
C26_Witness ==
    /\ n_commands >= 2
    /\ command.name = "JumpFirstSlide"
    /\ pc = "pull"
    /\ drawn = "none"
    /\ state = previous
    /\ state.tag = "Presenting"
    /\ state.presentation.current_slide_index = 0

\* ================================================================== push_table
\* A text is the sequence of its glyphs, every glyph one terminal column wide,
\* so that its display width is its length: "x" a glyph of a cell, " " a
\* blank, "|" the row bar U+2502, "+" the crossing U+253C, "-" the dash U+2500.
\* Most columns and most rows of a table.
MaxTableColumns == 3

MaxTableRows == 1

\* Display widths of a cell's text.
CellWidths == {0, 2}

\* Tables whose header and rows all have the same number of cells.
Tables ==
    UNION {
        {[header |-> h, rows |-> r] :
            h \in [1..k -> CellWidths],
            r \in UNION {[1..n -> [1..k -> CellWidths]] : n \in 0..MaxTableRows}} :
        k \in 1..MaxTableColumns}

Max(a, b) == IF a > b THEN a ELSE b

RECURSIVE column_width(_, _, _)
\* table.iter_column(column).map(|text| text.width()).max() over the header
\* and the first n rows
column_width(t, column, n) ==
    IF n = 0 THEN t.header[column]
    ELSE Max(t.rows[n][column], column_width(t, column, n - 1))

\* widths, for every column
column_widths(t) == [column \in 1..Len(t.header) |-> column_width(t, column, Len(t.rows))]

RECURSIVE prepare_table_row_upto(_, _, _)
\* the cells up to `column` (counted from 1), flattened
prepare_table_row_upto(row, widths, column) ==
    IF column = 0 THEN <<>>
    ELSE prepare_table_row_upto(row, widths, column - 1)
         \o (IF column > 1 THEN <<" ", "|", " ">> ELSE <<>>)
         \o Repeat("x", row[column])
         \o (IF row[column] < widths[column]
             THEN Repeat(" ", widths[column] - row[column]) ELSE <<>>)

prepare_table_row(row, widths) == prepare_table_row_upto(row, widths, Len(row))

\* separator_margin without the extra dash of the inner columns
separator_margin_always_one(index, columns) == 1

\* margin: 1, and one more for a column that is neither the first nor the last
separator_margin(index, columns) == IF index > 0 /\ index < columns - 1 THEN 2 ELSE 1

RECURSIVE table_separator_upto(_, _)
\* the separator chunks of the columns up to `column` (counted from 1; the
\* code's index is column - 1)
table_separator_upto(widths, column) ==
    IF column = 0 THEN <<>>
    ELSE LET index == column - 1
             margin == separator_margin(index, Len(widths))
         IN  table_separator_upto(widths, column - 1)
             \o (IF index > 0 THEN <<"+">> ELSE <<>>)
             \o Repeat("-", widths[column] + margin)

table_separator(widths) == table_separator_upto(widths, Len(widths))

\* push_table(table) is entered.
TableInit ==
    /\ BuilderIdle
    /\ PresenterIdle
    /\ ListIdle
    /\ table \in Tables
    /\ table_lines = <<>>
    /\ table_pc = "header"

PushTableLine(line, next) ==
    /\ table_lines' = Append(table_lines, line)
    /\ table_pc' = next
    /\ UNCHANGED table
    /\ UNCHANGED builder_vars
    /\ UNCHANGED presenter_vars
    /\ UNCHANGED list_vars

PushTableHeader ==
    /\ table_pc = "header"
    /\ PushTableLine(prepare_table_row(table.header, column_widths(table)), "separator")

PushTableSeparator ==
    /\ table_pc = "separator"
    /\ PushTableLine(table_separator(column_widths(table)), "rows")

\* for row in table.rows
PushTableRow ==
    /\ table_pc = "rows"
    /\ Len(table_lines) - 2 < Len(table.rows)
    /\ PushTableLine(prepare_table_row(table.rows[Len(table_lines) - 1], column_widths(table)),
                     "rows")

TableNext ==
    \/ PushTableHeader
    \/ PushTableSeparator
    \/ PushTableRow

TableSpec == TableInit /\ [][TableNext]_vars

\* ================================================= properties of push_table
\* push_table has pushed the header, the separator and every row.
TablePushed == table_pc = "rows" /\ Len(table_lines) = 2 + Len(table.rows)

\* The offsets at which `glyph` is in `line`.
Offsets(line, glyph) == {i \in 1..Len(line) : line[i] = glyph}

\* C24 as claimed: for a table of one column or more, the header line, the
\* separator line and every row line are equally wide, and the crossings of
\* the separator are at the offsets of the bars of the header and the rows.
C24_Original ==
    TablePushed =>
        \A i \in 1..Len(table_lines) :
            /\ Len(table_lines[i]) = Len(table_lines[2])
            /\ i # 2 => Offsets(table_lines[i], "|") = Offsets(table_lines[2], "+")

RECURSIVE Sum(_)
Sum(q) == IF q = <<>> THEN 0 ELSE Head(q) + Sum(Tail(q))

\* C24 (amended): the header line and every row line are as wide as the
\* column widths (the largest cell of each column) and the " | " between
\* columns make them; the crossings of the separator are at the offsets of
\* the bars of the header and of the rows; the separator is as wide as those
\* lines when the table has two columns or more, and one dash wider when it
\* has a single column.
C24_Aligned ==
    TablePushed =>
        LET k == Len(table.header)
            separator == table_lines[2]
        IN  /\ \A i \in 1..Len(table_lines) :
                i # 2 =>
                    /\ Len(table_lines[i]) = Sum(column_widths(table)) + 3 * (k - 1)
                    /\ Offsets(table_lines[i], "|") = Offsets(separator, "+")
            /\ Cardinality(Offsets(separator, "+")) = k - 1
            /\ Len(separator) = Len(table_lines[1]) + (IF k = 1 THEN 1 ELSE 0)

\* A table of three columns with a row, where the header cell is the widest
\* of the first column and the row cell the widest of the last.
C24_Witness ==
    /\ TablePushed
    /\ Len(table.header) = 3
    /\ Len(table.rows) = 1
    /\ table.header[1] > table.rows[1][1]
    /\ table.header[3] < table.rows[1][3]

\* ============================================================== push_list_item
\* A String is the sequence of its chars, a char its Unicode scalar value.
\* Deepest nesting and largest number of a list item.
MaxDepth == 2

MaxNumber == 10

Space == 32

ClosingParen == 41

Period == 46

Zero == 48

\* U+2022, U+25E6, U+25AA
Bullet == 8226

WhiteBullet == 9702

SmallSquare == 9642

ListNumbers == 0..MaxNumber \cup {99, 100}

ListItems ==
    {[depth |-> d, item_type |-> "Unordered", number |-> 0] : d \in 0..MaxDepth}
    \cup {[depth |-> d, item_type |-> t, number |-> n] :
            d \in 0..MaxDepth, t \in {"OrderedParens", "OrderedPeriod"}, n \in ListNumbers}

\* char::len_utf8
len_utf8(c) ==
    IF c < 128 THEN 1
    ELSE IF c < 2048 THEN 2
    ELSE IF c < 65536 THEN 3
    ELSE 4

RECURSIVE len(_)
\* String::len: the length in bytes of the UTF-8 encoding
len(string) ==
    IF string = <<>> THEN 0 ELSE len_utf8(Head(string)) + len(Tail(string))

RECURSIVE to_string(_)
\* usize::to_string: the decimal digits
to_string(number) ==
    IF number < 10 THEN <<Zero + number>>
    ELSE to_string(number \div 10) \o <<Zero + (number % 10)>>

padding_length(item) == (item.depth + 1) * 3

delimiter(depth) ==
    CASE depth = 0 -> Bullet
      [] depth = 1 -> WhiteBullet
      [] OTHER -> SmallSquare

\* the prefix push_list_item builds
prefix(item) ==
    Repeat(Space, padding_length(item)) \o
        CASE item.item_type = "Unordered" -> <<delimiter(item.depth)>>
          [] item.item_type = "OrderedParens" ->
               to_string(item.number) \o <<ClosingParen, Space>>
          [] item.item_type = "OrderedPeriod" ->
               to_string(item.number) \o <<Period, Space>>

\* prefix.len() as u16
prefix_length(item) == len(prefix(item)) % 65536

ListInit ==
    /\ BuilderIdle
    /\ PresenterIdle
    /\ TableIdle
    /\ list_item \in ListItems
    /\ list_operations = <<>>
    /\ list_pc = "prefix"

PushListOperation(operation, next) ==
    /\ list_operations' = Append(list_operations, operation)
    /\ list_pc' = next
    /\ UNCHANGED list_item
    /\ UNCHANGED builder_vars
    /\ UNCHANGED presenter_vars
    /\ UNCHANGED table_vars

\* self.push_text(prefix.into(), ElementType::List): aligned as the theme says
PushListItemPrefix ==
    /\ list_pc = "prefix"
    /\ PushListOperation([op |-> "RenderTextLine", text |-> prefix(list_item),
                          alignment |-> [kind |-> "Theme", margin |-> 0]],
                         "contents")

\* self.push_aligned_text(text, Alignment::Left { margin: Margin::Fixed(prefix_length) })
PushListItemContents ==
    /\ list_pc = "contents"
    /\ PushListOperation([op |-> "RenderTextLine", text |-> <<>>,
                          alignment |-> [kind |-> "Left",
                                         margin |-> prefix_length(list_item)]],
                         "line_break")

PushListItemLineBreak ==
    /\ list_pc = "line_break"
    /\ PushListOperation([op |-> "RenderLineBreak", text |-> <<>>,
                          alignment |-> [kind |-> "None", margin |-> 0]],
                         "done")

ListNext ==
    \/ PushListItemPrefix
    \/ PushListItemContents
    \/ PushListItemLineBreak

ListSpec == ListInit /\ [][ListNext]_vars

\* ------------------------------------------------- properties of push_list_item
\* The width in terminal columns of a prefix: every char push_list_item puts
\* in one (space, digit, parenthesis, period, the three bullets) is one column
\* wide.
DisplayWidth(string) == Len(string)

RECURSIVE Digits(_)
\* The number of decimal digits of n.
Digits(n) == IF n < 10 THEN 1 ELSE 1 + Digits(n \div 10)

ListItemPushed == list_pc = "done"

\* C31 as claimed: the fixed left margin of a pushed item's contents is the
\* display width of the prefix pushed before it, 3 * (depth + 1) + 1 for an
\* unordered item and 3 * (depth + 1) + digits(N) + 2 for an ordered one.
C31_Original ==
    ListItemPushed =>
        LET margin == list_operations[2].alignment.margin
        IN  /\ margin = DisplayWidth(list_operations[1].text)
            /\ margin = IF list_item.item_type = "Unordered"
                        THEN 3 * (list_item.depth + 1) + 1
                        ELSE 3 * (list_item.depth + 1) + Digits(list_item.number) + 2

====
